---- MODULE Spec2Model ----
(***************************************************************************)
(* String-type command execution layer of pikiwidb (src/src/cmd_kv.cc).    *)
(*                                                                         *)
(* Byte strings are sequences of byte values 0..255.  The source index     *)
(* argv_[i] is argv[i+1] here (TLA+ sequences start at 1); Arg(av, i)      *)
(* keeps the source numbering.  Each handler is one atomic step: the       *)
(* executor runs one command at a time and no handler suspends.            *)
(***************************************************************************)
EXTENDS Integers, Sequences, FiniteSets, TLC

VARIABLES
  store,       \* keyspace: key -> object (PSTORE's current db)
  expire,      \* expiry map: key -> absolute ms, or NoExpire
  now,         \* value of pstd::UnixMilliTimestamp() at the last command
  argv,        \* client->argv_ of the last command
  keys,        \* client->Keys(): key list recorded by DoInitial
  reply,       \* reply produced by the last command
  old_store,   \* history: keyspace before the last command
  old_expire,  \* history: expiry map before the last command
  n0,          \* history: counter value at the start of a counter run
  sum          \* history: sum of the deltas applied in a counter run

vars == <<store, expire, now, argv, keys, reply, old_store, old_expire, n0, sum>>

----------------------------------------------------------------------------
(* Bounds *)

IntBits == 5        \* width of the signed integer payload (int64 scaled down)
MaxTime == 2000     \* the clock stops advancing here
TickMs == 1000      \* clock advance between two commands
MaxSum == 5         \* largest |sum of deltas| of a counter run
MaxStrLen == 3      \* longest value APPEND is let to build

IntMax == 2^(IntBits - 1) - 1
IntMin == -(2^(IntBits - 1))
IntMod == 2^IntBits

----------------------------------------------------------------------------
(* Bytes and bit operations *)

Bit(b, i) == (b \div (2^i)) % 2

\* number of set bits of one byte
PopCount(b) == Bit(b,0) + Bit(b,1) + Bit(b,2) + Bit(b,3) + Bit(b,4) + Bit(b,5) + Bit(b,6) + Bit(b,7)

RECURSIVE SumBits(_, _, _)
SumBits(f, lo, hi) == IF lo > hi THEN 0 ELSE f[lo] + SumBits(f, lo + 1, hi)

\* BitCount(buf + start, n): set bits of n bytes starting at 0-based offset start
BitCount(s, start, n) ==
  SumBits([i \in 1..Len(s) |-> PopCount(s[i])], start + 1, start + n)

ByteAnd(a, b) ==
  SumBits([i \in 1..8 |-> (2^(i-1)) * (Bit(a, i-1) * Bit(b, i-1))], 1, 8)
ByteOr(a, b) ==
  SumBits([i \in 1..8 |-> (2^(i-1)) * (IF Bit(a, i-1) + Bit(b, i-1) > 0 THEN 1 ELSE 0)], 1, 8)
ByteXor(a, b) ==
  SumBits([i \in 1..8 |-> (2^(i-1)) * ((Bit(a, i-1) + Bit(b, i-1)) % 2)], 1, 8)
ByteNot(a) == 255 - a

\* ASCII lower-case folding of one byte and of a string
LowerByte(b) == IF b \in 65..90 THEN b + 32 ELSE b
StringEqualCaseInsensitive(a, b) ==
  /\ Len(a) = Len(b)
  /\ \A i \in 1..Len(a) : LowerByte(a[i]) = LowerByte(b[i])

----------------------------------------------------------------------------
(* Integer parsing and formatting *)

\* two's-complement wrap of an integer into the payload width
Wrap(n) == ((n - IntMin) % IntMod) + IntMin

IsDigit(b) == b \in 48..57

RECURSIVE DigitsVal(_)
DigitsVal(s) ==
  IF s = <<>> THEN 0
  ELSE DigitsVal(SubSeq(s, 1, Len(s) - 1)) * 10 + (s[Len(s)] - 48)

\* decimal parse: optional '-', at least one digit, value within the width
ParseDecimal(s) ==
  LET neg == Len(s) > 0 /\ s[1] = 45
      body == IF neg THEN Tail(s) ELSE s
      wf == Len(body) > 0 /\ \A i \in 1..Len(body) : IsDigit(body[i])
      mag == IF wf THEN DigitsVal(body) ELSE 0
      val == IF neg THEN -mag ELSE mag
  IN IF wf /\ val >= IntMin /\ val <= IntMax
       THEN [ok |-> TRUE, val |-> val]
       ELSE [ok |-> FALSE, val |-> 0]

\* pstd::String2int(str, &out): non-zero on success
String2int(s) == ParseDecimal(s)

\* Strtol(ptr, n, &out): true on success
Strtol(s) == ParseDecimal(s)

RECURSIVE NatToStr(_)
NatToStr(n) ==
  IF n < 10 THEN <<48 + n>> ELSE NatToStr(n \div 10) \o <<48 + (n % 10)>>

\* std::to_string / textual form of an integer payload
IntToStr(n) == IF n < 0 THEN <<45>> \o NatToStr(-n) ELSE NatToStr(n)

----------------------------------------------------------------------------
(* Values (PObject) *)

kPTypeString == "string"
kPTypeList == "list"
kPEncodeRaw == "raw"
kPEncodeInt == "int"

Absent == [type |-> "none", encoding |-> "none", str |-> <<>>, int |-> 0]
RawObj(s) == [type |-> kPTypeString, encoding |-> kPEncodeRaw, str |-> s, int |-> 0]
IntObj(n) == [type |-> kPTypeString, encoding |-> kPEncodeInt, str |-> <<>>, int |-> n]
ListObj == [type |-> kPTypeList, encoding |-> "list", str |-> <<>>, int |-> 0]

\* PObject::CreateString(const PString&): Int-encoded when the bytes parse
CreateString(s) ==
  IF Strtol(s).ok THEN IntObj(Strtol(s).val) ELSE RawObj(s)

\* PObject::CreateString(long)
CreateStringInt(n) == IntObj(n)

\* GetDecodedString(obj): the byte view of a String value
GetDecodedString(obj) ==
  IF obj.encoding = kPEncodeInt THEN IntToStr(obj.int) ELSE obj.str

----------------------------------------------------------------------------
(* Keyspace service (PSTORE) *)

NoExpire == -1

kPErrorOK == "kPErrorOK"
kPErrorNotExist == "kPErrorNotExist"
kPErrorType == "kPErrorType"
kPErrorParam == "kPErrorParam"

\* a key whose expiry epoch has been reached counts as not existent
IsExpired(ex, k, t) == ex[k] # NoExpire /\ ex[k] <= t

\* GetValue(key): lazy expiration on access, then lookup
GetValue(st, ex, k, t) ==
  IF st[k] = Absent \/ IsExpired(ex, k, t)
    THEN [err |-> kPErrorNotExist, value |-> Absent,
          store |-> [st EXCEPT ![k] = Absent], expire |-> [ex EXCEPT ![k] = NoExpire]]
    ELSE [err |-> kPErrorOK, value |-> st[k], store |-> st, expire |-> ex]

\* GetValueByType(key, value, type): as GetValue, with the type-tag check;
\* on a mismatch the out-pointer stays null (value |-> Absent)
GetValueByType(st, ex, k, type, t) ==
  LET g == GetValue(st, ex, k, t)
  IN IF g.err = kPErrorOK /\ g.value.type # type
       THEN [g EXCEPT !.err = kPErrorType, !.value = Absent]
       ELSE g

SetValue(st, k, obj) == [st EXCEPT ![k] = obj]
ClearExpire(ex, k) == [ex EXCEPT ![k] = NoExpire]
SetExpire(ex, k, at) == [ex EXCEPT ![k] = at]

----------------------------------------------------------------------------
(* Client context and replies (PClient) *)

Arg(av, i) == av[i + 1]

\* client->Key(): the first recorded key (empty when none is recorded)
Key(ks) == IF ks = <<>> THEN <<>> ELSE ks[1]

\* client->SetKey(name) / SetKey(names)
SetKey(name) == <<name>>
SetKeys(names) == names

NoReply == [kind |-> "none", code |-> "", msg |-> "", int |-> 0, str |-> <<>>, arr |-> <<>>]
\* client->SetRes(code, detail): replaces whatever reply was set before
SetRes(code, detail) == [NoReply EXCEPT !.kind = "res", !.code = code, !.msg = detail]
\* client->SetRes(code, std::to_string(n))
SetResLen(code, n) == [NoReply EXCEPT !.kind = "res", !.code = code, !.str = IntToStr(n)]
AppendString(s) == [NoReply EXCEPT !.kind = "bulk", !.str = s]
AppendInteger(n) == [NoReply EXCEPT !.kind = "int", !.int = n]
\* AppendArrayLen(n) followed by one AppendStringLen [+ AppendContent] per element
AppendArray(elems) == [NoReply EXCEPT !.kind = "array", !.int = Len(elems), !.arr = elems]
NilBulk == [nil |-> TRUE, str |-> <<>>]
Bulk(s) == [nil |-> FALSE, str |-> s]
\* the handler dereferenced a null pointer, read past a vector or let an
\* exception escape: the process ends without completing the reply
Crash(why) == [NoReply EXCEPT !.kind = "crash", !.code = why]

Done(st, ex, r) == [store |-> st, expire |-> ex, reply |-> r]
InitOK(ks) == [ok |-> TRUE, keys |-> ks, reply |-> NoReply]
InitFail(ks, r) == [ok |-> FALSE, keys |-> ks, reply |-> r]

----------------------------------------------------------------------------
(* GET *)

GetCmd_DoInitial(av, ks) == InitOK(SetKey(Arg(av, 1)))

GetCmd_DoCmd(av, ks, t) ==
  LET g == GetValueByType(store, expire, Key(ks), kPTypeString, t)
  IN IF g.err # kPErrorOK
       THEN IF g.err = kPErrorNotExist
              THEN Done(g.store, g.expire, AppendString(<<>>))
              ELSE Done(g.store, g.expire, SetRes("kSyntaxErr", "get key error"))
       ELSE Done(g.store, g.expire, AppendString(GetDecodedString(g.value)))

(* SET *)

SetCmd_DoInitial(av, ks) == InitOK(SetKey(Arg(av, 1)))

\* variant: the old ttl is kept
SetCmd_DoCmd_KeepTtl(av, ks, t) ==
  Done(SetValue(store, Arg(av, 1), CreateString(Arg(av, 2))), expire, SetRes("kOK", ""))

SetCmd_DoCmd(av, ks, t) ==
  LET e1 == ClearExpire(expire, Arg(av, 1))
      s1 == SetValue(store, Arg(av, 1), CreateString(Arg(av, 2)))
  IN Done(s1, e1, SetRes("kOK", ""))

(* GETSET *)

GetSetCmd_DoInitial(av, ks) == InitOK(SetKey(Arg(av, 1)))

GetSetCmd_DoCmd(av, ks, t) ==
  LET g == GetValueByType(store, expire, Key(ks), kPTypeString, t)
      e1 == ClearExpire(g.expire, Arg(av, 1))
      s1 == SetValue(g.store, Arg(av, 1), CreateString(Arg(av, 2)))
  IN IF g.err # kPErrorOK
       THEN IF g.err = kPErrorNotExist
              THEN Done(s1, e1, AppendString(<<>>))
              ELSE Done(g.store, g.expire, SetRes("kErrOther", "getset cmd error"))
       ELSE Done(s1, e1, AppendString(GetDecodedString(g.value)))

(* MGET *)

MGetCmd_DoInitial(av, ks) == InitOK(SetKeys(Tail(av)))

RECURSIVE MGetLoop(_, _, _, _, _)
MGetLoop(st, ex, rest, t, acc) ==
  IF rest = <<>> THEN Done(st, ex, AppendArray(acc))
  ELSE LET g == GetValueByType(st, ex, Head(rest), kPTypeString, t)
       IN IF g.err = kPErrorNotExist
            THEN MGetLoop(g.store, g.expire, Tail(rest), t, Append(acc, NilBulk))
            ELSE IF g.value = Absent   \* GetDecodedString(nullptr)
              THEN Done(g.store, g.expire, Crash("null value"))
              ELSE MGetLoop(g.store, g.expire, Tail(rest), t,
                            Append(acc, Bulk(GetDecodedString(g.value))))

MGetCmd_DoCmd(av, ks, t) == MGetLoop(store, expire, ks, t, <<>>)

(* MSET *)

RECURSIVE OddArgs(_)
\* argv_[1], argv_[3], ...: the keys of the pairs
OddArgs(rest) ==
  IF Len(rest) = 0 THEN <<>>
  ELSE <<rest[1]>> \o OddArgs(SubSeq(rest, 3, Len(rest)))

MSetCmd_DoInitial(av, ks) ==
  IF Len(av) % 2 = 0
    THEN InitFail(ks, SetRes("kWrongNum", "mset"))
    ELSE InitOK(SetKeys(OddArgs(Tail(av))))

RECURSIVE MSetLoop(_, _, _, _, _)
MSetLoop(st, ex, rest, av, valueIndex) ==
  IF rest = <<>> THEN Done(st, ex, SetRes("kOK", ""))
  ELSE MSetLoop(SetValue(st, Head(rest), CreateString(Arg(av, valueIndex))),
                ClearExpire(ex, Head(rest)), Tail(rest), av, valueIndex + 2)

\* variant: only the first pair is written
MSetCmd_DoCmd_FirstOnly(av, ks, t) == MSetLoop(store, expire, SubSeq(ks, 1, 1), av, 2)

MSetCmd_DoCmd(av, ks, t) == MSetLoop(store, expire, ks, av, 2)

(* SETNX *)

SetNXCmd_DoInitial(av, ks) == InitOK(SetKey(Arg(av, 1)))

SetNXCmd_DoCmd_Always(av, ks, t) ==
  LET g == GetValue(store, expire, Arg(av, 1), t)
  IN Done(SetValue(g.store, Arg(av, 1), CreateString(Arg(av, 2))),
          ClearExpire(g.expire, Arg(av, 1)), AppendInteger(1))

SetNXCmd_DoCmd(av, ks, t) ==
  LET g == GetValue(store, expire, Arg(av, 1), t)
  IN IF g.err = kPErrorNotExist
       THEN Done(SetValue(g.store, Arg(av, 1), CreateString(Arg(av, 2))),
                 ClearExpire(g.expire, Arg(av, 1)), AppendInteger(1))
       ELSE Done(g.store, g.expire, AppendInteger(0))

(* SETEX / PSETEX *)

SetExCmd_DoInitial(av, ks) ==
  IF ~String2int(Arg(av, 2)).ok
    THEN InitFail(SetKey(Arg(av, 1)), SetRes("kInvalidInt", ""))
    ELSE InitOK(SetKey(Arg(av, 1)))

\* variant: the value is stored and the expiry is left as it was
SetExCmd_DoCmd_ValueOnly(av, ks, t) ==
  Done(SetValue(store, Arg(av, 1), CreateString(Arg(av, 3))), expire, SetRes("kOK", ""))

SetExCmd_DoCmd(av, ks, t) ==
  LET s1 == SetValue(store, Arg(av, 1), CreateString(Arg(av, 3)))
      sec == String2int(Arg(av, 2)).val
      e1 == SetExpire(expire, Arg(av, 1), t + sec * 1000)
  IN Done(s1, e1, SetRes("kOK", ""))

PSetExCmd_DoInitial(av, ks) ==
  IF ~String2int(Arg(av, 2)).ok
    THEN InitFail(SetKey(Arg(av, 1)), SetRes("kInvalidInt", ""))
    ELSE InitOK(SetKey(Arg(av, 1)))

PSetExCmd_DoCmd(av, ks, t) ==
  LET s1 == SetValue(store, Arg(av, 1), CreateString(Arg(av, 3)))
      msec == String2int(Arg(av, 2)).val
      e1 == SetExpire(expire, Arg(av, 1), t + msec)
  IN Done(s1, e1, SetRes("kOK", ""))

----------------------------------------------------------------------------
(* Keyspace service: Incrby *)

\* PSTORE.Incrby(key, delta, &new_value): adds in place to an integer value
Incrby(st, ex, k, delta, t) ==
  LET g == GetValueByType(st, ex, k, kPTypeString, t)
      p == Strtol(GetDecodedString(g.value))
      nv == Wrap(p.val + delta)
  IN IF g.err # kPErrorOK
       THEN [err |-> g.err, new_value |-> 0, store |-> g.store, expire |-> g.expire]
       ELSE IF ~p.ok
         THEN [err |-> kPErrorType, new_value |-> 0, store |-> g.store, expire |-> g.expire]
         ELSE [err |-> kPErrorOK, new_value |-> nv,
               store |-> SetValue(g.store, k, IntObj(nv)), expire |-> g.expire]

(* DECR / INCR *)

DecrCmd_DoInitial(av, ks) == InitOK(SetKey(Arg(av, 1)))

DecrCmd_DoCmd(av, ks, t) ==
  LET g == GetValueByType(store, expire, Key(ks), kPTypeString, t)
      oldVal == g.value.int
  IN IF g.err = kPErrorNotExist
       THEN Done(SetValue(g.store, Key(ks), CreateStringInt(-1)), g.expire, AppendInteger(-1))
       ELSE IF g.err # kPErrorOK
         THEN Done(g.store, g.expire, SetRes("kErrOther", ""))
         ELSE IF g.value.encoding # kPEncodeInt
           THEN Done(g.store, g.expire, SetRes("kInvalidInt", ""))
           ELSE Done(SetValue(g.store, Key(ks), IntObj(Wrap(oldVal - 1))), g.expire,
                     AppendInteger(Wrap(oldVal - 1)))

IncrCmd_DoInitial(av, ks) == InitOK(SetKey(Arg(av, 1)))

\* variant: the in-place increment replies the new value without storing it
IncrCmd_DoCmd_NoReset(av, ks, t) ==
  LET g == GetValueByType(store, expire, Key(ks), kPTypeString, t)
  IN IF g.err = kPErrorNotExist
       THEN Done(SetValue(g.store, Key(ks), CreateStringInt(1)), g.expire, AppendInteger(1))
       ELSE IF g.err # kPErrorOK
         THEN Done(g.store, g.expire, SetRes("kErrOther", ""))
         ELSE IF g.value.encoding # kPEncodeInt
           THEN Done(g.store, g.expire, SetRes("kInvalidInt", ""))
           ELSE Done(g.store, g.expire, AppendInteger(Wrap(g.value.int + 1)))

IncrCmd_DoCmd(av, ks, t) ==
  LET g == GetValueByType(store, expire, Key(ks), kPTypeString, t)
      oldVal == g.value.int
  IN IF g.err = kPErrorNotExist
       THEN Done(SetValue(g.store, Key(ks), CreateStringInt(1)), g.expire, AppendInteger(1))
       ELSE IF g.err # kPErrorOK
         THEN Done(g.store, g.expire, SetRes("kErrOther", ""))
         ELSE IF g.value.encoding # kPEncodeInt
           THEN Done(g.store, g.expire, SetRes("kInvalidInt", ""))
           ELSE Done(SetValue(g.store, Key(ks), IntObj(Wrap(oldVal + 1))), g.expire,
                     AppendInteger(Wrap(oldVal + 1)))

(* INCRBY *)

IncrbyCmd_DoInitial(av, ks) ==
  IF ~String2int(Arg(av, 2)).ok
    THEN InitFail(ks, SetRes("kInvalidInt", ""))
    ELSE InitOK(SetKey(Arg(av, 1)))

IncrbyCmd_DoCmd(av, ks, t) ==
  LET by_ == String2int(Arg(av, 2)).val
      r == Incrby(store, expire, Key(ks), by_, t)
  IN CASE r.err = kPErrorType -> Done(r.store, r.expire, SetRes("kInvalidInt", ""))
       [] r.err = kPErrorNotExist ->
            Done(SetValue(r.store, Key(ks), CreateStringInt(by_)),
                 ClearExpire(r.expire, Key(ks)), AppendInteger(by_))
       [] r.err = kPErrorOK -> Done(r.store, r.expire, AppendInteger(r.new_value))
       [] OTHER -> Done(r.store, r.expire, SetRes("kErrOther", "incrby cmd error"))

----------------------------------------------------------------------------
(* GETRANGE *)

GetRangeCmd_DoInitial(av, ks) ==
  IF ~String2int(Arg(av, 2)).ok \/ ~String2int(Arg(av, 3)).ok
    THEN InitFail(ks, SetRes("kInvalidInt", ""))
    ELSE InitOK(SetKey(Arg(av, 1)))

\* std::string::substr(pos, count) with count taken as size_t: a negative
\* count is a huge one; pos > size throws std::out_of_range
Substr(s, pos, count) ==
  LET n == IF count < 0 \/ count > Len(s) - pos THEN Len(s) - pos ELSE count
  IN SubSeq(s, pos + 1, pos + n)

GetRangeCmd_DoCmd(av, ks, t) ==
  LET g == GetValueByType(store, expire, Key(ks), kPTypeString, t)
      start0 == String2int(Arg(av, 2)).val
      end0 == String2int(Arg(av, 3)).val
      str == GetDecodedString(g.value)
      len == Len(str)
      start1 == IF start0 < 0 THEN start0 + len ELSE start0
      end1 == IF end0 < 0 THEN end0 + len ELSE end0
      start2 == IF start1 < 0 THEN 0 ELSE start1
      end2 == IF end1 < 0 THEN 0 ELSE end1
      end3 == IF end2 >= len THEN len - 1 ELSE end2
  IN IF g.err # kPErrorOK
       THEN IF g.err = kPErrorNotExist
              THEN Done(g.store, g.expire, AppendString(<<>>))
              ELSE Done(g.store, g.expire, SetRes("kErrOther", "getrange cmd error"))
       ELSE IF end0 < start0
         THEN Done(g.store, g.expire, AppendString(<<>>))
         ELSE IF start2 > len
           THEN Done(g.store, g.expire, Crash("out_of_range"))
           ELSE Done(g.store, g.expire, AppendString(Substr(str, start2, end3 - start2 + 1)))

----------------------------------------------------------------------------
(* BITCOUNT *)

BitCountCmd_DoInitial(av, ks) ==
  IF Len(av) # 2 /\ Len(av) # 4
    THEN InitFail(ks, SetRes("kSyntaxErr", "bitcount"))
    ELSE InitOK(SetKey(Arg(av, 1)))

\* what reading argv_[2], argv_[3] of a two-element vector can produce: the
\* process faults, or the reads return whatever bytes lie there
OutOfBounds ==
  { [crash |-> TRUE, a2 |-> <<>>, a3 |-> <<>>],
    [crash |-> FALSE, a2 |-> <<>>, a3 |-> <<>>],
    [crash |-> FALSE, a2 |-> <<48>>, a3 |-> <<48>>],
    [crash |-> FALSE, a2 |-> <<48>>, a3 |-> <<45, 49>>] }

BitCountCmd_DoCmd(av, ks, t, oob) ==
  LET g == GetValueByType(store, expire, Arg(av, 1), kPTypeString, t)
      inb == Len(av) = 4
      a2 == IF inb THEN Arg(av, 2) ELSE oob.a2
      a3 == IF inb THEN Arg(av, 3) ELSE oob.a3
      str == GetDecodedString(g.value)
      value_length == Len(str)
      s0 == String2int(a2).val
      e0 == String2int(a3).val
      s1 == IF s0 < 0 THEN s0 + value_length ELSE s0
      e1 == IF e0 < 0 THEN e0 + value_length ELSE e0
      s2 == IF s1 < 0 THEN 0 ELSE s1
      e2 == IF e1 < 0 THEN 0 ELSE e1
      e3 == IF e2 >= value_length THEN value_length - 1 ELSE e2
      count == IF e3 >= s2 THEN BitCount(str, s2, e3 - s2 + 1) ELSE 0
  IN IF g.err # kPErrorOK
       THEN IF g.err = kPErrorNotExist
              THEN Done(g.store, g.expire, AppendInteger(0))
              ELSE Done(g.store, g.expire, SetRes("kErrOther", "bitcount get key error"))
       ELSE IF ~inb /\ oob.crash
         THEN Done(g.store, g.expire, Crash("argv out of bounds"))
         ELSE IF ~String2int(a2).ok \/ ~String2int(a3).ok
           THEN Done(g.store, g.expire, SetRes("kInvalidInt", ""))
           ELSE Done(g.store, g.expire, AppendInteger(count))

----------------------------------------------------------------------------
(* BITOP *)

OpAnd == <<97, 110, 100>>   \* "and"
OpOr == <<111, 114>>        \* "or"
OpNot == <<110, 111, 116>>  \* "not"
OpXor == <<120, 111, 114>>  \* "xor"

BitOpCmd_DoInitial(av, ks) ==
  IF ~(\/ StringEqualCaseInsensitive(Arg(av, 1), OpAnd)
       \/ StringEqualCaseInsensitive(Arg(av, 1), OpOr)
       \/ StringEqualCaseInsensitive(Arg(av, 1), OpNot)
       \/ StringEqualCaseInsensitive(Arg(av, 1), OpXor))
    THEN InitFail(ks, SetRes("kSyntaxErr", "operation error"))
    ELSE InitOK(ks)

\* res.resize(n): pad with zero bytes (never called to shrink here)
Resize(s, n) == s \o [i \in 1..(n - Len(s)) |-> 0]

\* the loop over i < str->size(): res[i] op= (*str)[i]
Combine(res, str, op) ==
  [i \in 1..Len(res) |->
     IF i > Len(str) THEN res[i]
     ELSE CASE op = "kBitOpAnd" -> ByteAnd(res[i], str[i])
            [] op = "kBitOpOr" -> ByteOr(res[i], str[i])
            [] op = "kBitOpXor" -> ByteXor(res[i], str[i])]

RECURSIVE BitOpLoop(_, _, _, _, _, _)
BitOpLoop(st, ex, rest, op, t, res) ==
  IF rest = <<>> THEN [res |-> res, store |-> st, expire |-> ex]
  ELSE LET g == GetValueByType(st, ex, Head(rest), kPTypeString, t)
           str == GetDecodedString(g.value)
       IN IF g.err # kPErrorOK
            THEN BitOpLoop(g.store, g.expire, Tail(rest), op, t, res)
            ELSE IF res = <<>>
              THEN BitOpLoop(g.store, g.expire, Tail(rest), op, t, str)
              ELSE BitOpLoop(g.store, g.expire, Tail(rest), op, t,
                     Combine(IF Len(str) > Len(res) THEN Resize(res, Len(str)) ELSE res,
                             str, op))

StringBitOp(st, ex, srcs, op, t) ==
  IF op = "kBitOpNot"
    THEN LET g == GetValueByType(st, ex, srcs[1], kPTypeString, t)
             str == GetDecodedString(g.value)
         IN IF g.err # kPErrorOK
              THEN [res |-> <<>>, store |-> g.store, expire |-> g.expire]
              ELSE [res |-> [i \in 1..Len(str) |-> ByteNot(str[i])],
                    store |-> g.store, expire |-> g.expire]
    ELSE BitOpLoop(st, ex, srcs, op, t, <<>>)

BitOpCmd_DoCmd(av, ks, t) ==
  LET srcs == SubSeq(av, 4, Len(av))
      opname == Arg(av, 1)
      op == IF Len(Key(ks)) = 2
              THEN IF StringEqualCaseInsensitive(opname, OpOr) THEN "kBitOpOr" ELSE "none"
              ELSE IF Len(Key(ks)) = 3
                THEN IF StringEqualCaseInsensitive(opname, OpXor) THEN "kBitOpXor"
                     ELSE IF StringEqualCaseInsensitive(opname, OpAnd) THEN "kBitOpAnd"
                     ELSE IF StringEqualCaseInsensitive(opname, OpNot) /\ Len(av) = 4
                       THEN "kBitOpNot" ELSE "none"
                ELSE "none"
      err == IF op = "none" THEN kPErrorParam ELSE kPErrorOK
      b == StringBitOp(store, expire, srcs, op, t)
      res == IF err = kPErrorOK THEN b.res ELSE <<>>
  IN IF err # kPErrorOK
       \* SetRes(kSyntaxErr) is overwritten by the trailing SetRes(kOK, size)
       THEN Done(store, expire, SetResLen("kOK", Len(res)))
       ELSE Done(SetValue(b.store, Arg(av, 2), CreateString(res)), b.expire,
                 SetResLen("kOK", Len(res)))

----------------------------------------------------------------------------
(* APPEND / STRLEN *)

AppendCmd_DoInitial(av, ks) == InitOK(SetKey(Arg(av, 1)))

AppendCmd_DoCmd(av, ks, t) ==
  LET g == GetValueByType(store, expire, Key(ks), kPTypeString, t)
      new_value == GetDecodedString(g.value) \o Arg(av, 2)
  IN IF g.err # kPErrorOK
       THEN IF g.err = kPErrorNotExist
              THEN Done(SetValue(g.store, Arg(av, 1), CreateString(Arg(av, 2))),
                        ClearExpire(g.expire, Arg(av, 1)), AppendInteger(Len(Arg(av, 2))))
              ELSE Done(g.store, g.expire, SetRes("kErrOther", "append cmd error"))
       ELSE Done(SetValue(g.store, Arg(av, 1), CreateString(new_value)), g.expire,
                 AppendInteger(Len(new_value)))

StrlenCmd_DoInitial(av, ks) == InitOK(SetKey(Arg(av, 1)))

StrlenCmd_DoCmd(av, ks, t) ==
  LET g == GetValueByType(store, expire, Key(ks), kPTypeString, t)
  IN CASE g.err = kPErrorOK ->
            Done(g.store, g.expire, AppendInteger(Len(GetDecodedString(g.value))))
       [] g.err = kPErrorNotExist -> Done(g.store, g.expire, AppendInteger(0))
       [] OTHER -> Done(g.store, g.expire, SetRes("kErrOther", "error other"))

----------------------------------------------------------------------------
(* DECRBY *)

\* PSTORE.Decrby(key, delta, &new_value): subtracts in place from an integer value
Decrby(st, ex, k, delta, t) ==
  LET g == GetValueByType(st, ex, k, kPTypeString, t)
      p == Strtol(GetDecodedString(g.value))
      nv == Wrap(p.val - delta)
  IN IF g.err # kPErrorOK
       THEN [err |-> g.err, new_value |-> 0, store |-> g.store, expire |-> g.expire]
       ELSE IF ~p.ok
         THEN [err |-> kPErrorType, new_value |-> 0, store |-> g.store, expire |-> g.expire]
         ELSE [err |-> kPErrorOK, new_value |-> nv,
               store |-> SetValue(g.store, k, IntObj(nv)), expire |-> g.expire]

DecrbyCmd_DoInitial(av, ks) ==
  IF ~String2int(Arg(av, 2)).ok
    THEN InitFail(ks, SetRes("kInvalidInt", ""))
    ELSE InitOK(SetKey(Arg(av, 1)))

\* by *= -1 overflows for the smallest integer: the product wraps back to
\* the smallest integer, or the build traps on signed overflow
DecrbyCmd_DoCmd(av, ks, t, trap) ==
  LET by == String2int(Arg(av, 2)).val
      r == Decrby(store, expire, Key(ks), by, t)
      neg == Wrap(by * (-1))
  IN CASE r.err = kPErrorType -> Done(r.store, r.expire, SetRes("kInvalidInt", ""))
       [] r.err = kPErrorNotExist ->
            IF by = IntMin /\ trap
              THEN Done(r.store, r.expire, Crash("signed overflow"))
              ELSE Done(SetValue(r.store, Key(ks), CreateStringInt(neg)),
                        ClearExpire(r.expire, Key(ks)), AppendInteger(neg))
       [] r.err = kPErrorOK -> Done(r.store, r.expire, AppendInteger(r.new_value))
       [] OTHER -> Done(r.store, r.expire, SetRes("kErrOther", "decrby cmd error"))

----------------------------------------------------------------------------
(* INCRBYFLOAT (integral operands only: the model draws no fractions) *)

\* StrToLongDouble(ptr, n, &out): the success flag of the long-double parse
StrToLongDouble(s) == ParseDecimal(s).ok

\* PSTORE.Incrbyfloat(key, delta, &new_value): the sum, stored in textual form
Incrbyfloat(st, ex, k, delta, t) ==
  LET g == GetValueByType(st, ex, k, kPTypeString, t)
      old == ParseDecimal(GetDecodedString(g.value))
      by == ParseDecimal(delta)
      nv == IntToStr(old.val + by.val)
  IN IF g.err # kPErrorOK
       THEN [err |-> g.err, new_value |-> <<>>, store |-> g.store, expire |-> g.expire]
       ELSE IF ~old.ok \/ ~by.ok
         THEN [err |-> kPErrorType, new_value |-> <<>>, store |-> g.store, expire |-> g.expire]
         ELSE [err |-> kPErrorOK, new_value |-> nv,
               store |-> SetValue(g.store, k, RawObj(nv)), expire |-> g.expire]

IncrbyFloatCmd_DoInitial(av, ks) ==
  IF StrToLongDouble(Arg(av, 2))
    THEN InitFail(ks, SetRes("kInvalidFloat", ""))
    ELSE InitOK(SetKey(Arg(av, 1)))

IncrbyFloatCmd_DoCmd(av, ks, t) ==
  LET r == Incrbyfloat(store, expire, Arg(av, 1), Arg(av, 2), t)
  IN CASE r.err = kPErrorType -> Done(r.store, r.expire, SetRes("kInvalidFloat", ""))
       [] r.err = kPErrorNotExist ->
            Done(SetValue(r.store, Key(ks), CreateString(Arg(av, 2))),
                 ClearExpire(r.expire, Key(ks)), AppendString(Arg(av, 2)))
       [] r.err = kPErrorOK -> Done(r.store, r.expire, AppendString(r.new_value))
       [] OTHER -> Done(r.store, r.expire, SetRes("kErrOther", "incrbyfloat cmd error"))

----------------------------------------------------------------------------
(* GETBIT / SETBIT *)

kStringMaxBytes == 1073741824

GetBitCmd_DoInitial(av, ks) == InitOK(SetKey(Arg(av, 1)))

GetBitCmd_DoCmd(av, ks, t) ==
  LET g == GetValueByType(store, expire, Key(ks), kPTypeString, t)
      p == Strtol(Arg(av, 2))
      offset == p.val
      str == GetDecodedString(g.value)
      size == 8 * Len(str)
      bytesOffset == offset \div 8
      bitsOffset == offset % 8
  IN IF g.err # kPErrorOK
       THEN Done(g.store, g.expire, SetRes("kErrOther", ""))
       ELSE IF ~p.ok
         THEN Done(g.store, g.expire, SetRes("kInvalidInt", ""))
         ELSE IF offset < 0 \/ offset >= size
           THEN Done(g.store, g.expire, AppendInteger(0))
           ELSE Done(g.store, g.expire, AppendInteger(Bit(str[bytesOffset + 1], bitsOffset)))

SetBitCmd_DoInitial(av, ks) == InitOK(SetKey(Arg(av, 1)))

\* value->CastString(): the payload cell read as a string pointer.  A Raw
\* value holds its byte string.  An Int value keeps the integer itself in the
\* cell: integer 0 reads as the null pointer, any other integer as a pointer
\* into memory the value does not own, whose use faults or reads what lies there
CastString(obj, wild) ==
  IF obj.encoding = kPEncodeRaw THEN [ptr |-> "ok", str |-> obj.str]
  ELSE IF obj.int = 0 THEN [ptr |-> "null", str |-> <<>>]
  ELSE [ptr |-> IF wild.fault THEN "fault" ELSE "ok", str |-> wild.str]

\* byte |= (0x1 << bits)  /  byte &= ~(0x1 << bits)
WithBit(byte, bits, on) ==
  IF on THEN byte + (IF Bit(byte, bits) = 1 THEN 0 ELSE 2^bits)
  ELSE byte - (IF Bit(byte, bits) = 1 THEN 2^bits ELSE 0)

SetBitCmd_DoCmd(av, ks, t, wild) ==
  LET g == GetValueByType(store, expire, Key(ks), kPTypeString, t)
      created == g.err = kPErrorNotExist
      s0 == IF created THEN SetValue(g.store, Key(ks), CreateString(<<>>)) ELSE g.store
      value == IF created THEN CreateString(<<>>) ELSE g.value
      po == Strtol(Arg(av, 2))
      pn == Strtol(Arg(av, 3))
      offset == po.val
      on == pn.val
      cast == CastString(value, wild)
      bytes == offset \div 8
      bits == offset % 8
      grown == IF bytes + 1 > Len(cast.str) THEN Resize(cast.str, bytes + 1) ELSE cast.str
      oldByte == grown[bytes + 1]
      newVal == [grown EXCEPT ![bytes + 1] = WithBit(oldByte, bits, on # 0)]
  IN IF ~created /\ g.err # kPErrorOK
       THEN Done(g.store, g.expire, AppendInteger(0))
       ELSE IF ~po.ok \/ ~pn.ok
         THEN Done(s0, g.expire, SetRes("kInvalidInt", ""))
         ELSE IF offset < 0 \/ offset > kStringMaxBytes
           THEN Done(s0, g.expire, AppendInteger(0))
           ELSE IF cast.ptr = "null"
             THEN Done(s0, g.expire, AppendInteger(0))
             ELSE IF cast.ptr = "fault"
               THEN Done(s0, g.expire, Crash("wild string pointer"))
               ELSE Done(SetValue(s0, Key(ks), RawObj(newVal)), g.expire,
                         AppendInteger(Bit(oldByte, bits)))

----------------------------------------------------------------------------
(* Dispatch: Initial, then Execute unless Initial failed *)

KeyA == <<107>>            \* "k"
KeyB == <<107, 50>>        \* "k2"
KeyC == <<107, 101, 121>>  \* "key"
KeySpace == {KeyA, KeyB, KeyC}

Alive == reply.kind # "crash"

\* the clock reading of the next command
Times == {t \in {now, now + TickMs} : t <= MaxTime}

Step(av, t, ini, run) ==
  /\ Alive
  /\ argv' = av
  /\ now' = t
  /\ old_store' = store
  /\ old_expire' = expire
  /\ keys' = ini.keys
  /\ IF ini.ok
       THEN store' = run.store /\ expire' = run.expire /\ reply' = run.reply
       ELSE store' = store /\ expire' = expire /\ reply' = ini.reply

RunGet(t, k) ==
  LET av == <<"get", k>>
      ini == GetCmd_DoInitial(av, keys)
  IN Step(av, t, ini, GetCmd_DoCmd(av, ini.keys, t))

RunSet(t, k, v) ==
  LET av == <<"set", k, v>>
      ini == SetCmd_DoInitial(av, keys)
  IN Step(av, t, ini, SetCmd_DoCmd(av, ini.keys, t))

RunGetSet(t, k, v) ==
  LET av == <<"getset", k, v>>
      ini == GetSetCmd_DoInitial(av, keys)
  IN Step(av, t, ini, GetSetCmd_DoCmd(av, ini.keys, t))

RunMGet(t, kl) ==
  LET av == <<"mget">> \o kl
      ini == MGetCmd_DoInitial(av, keys)
  IN Step(av, t, ini, MGetCmd_DoCmd(av, ini.keys, t))

RunMSet(t, kvl) ==
  LET av == <<"mset">> \o kvl
      ini == MSetCmd_DoInitial(av, keys)
  IN Step(av, t, ini, MSetCmd_DoCmd(av, ini.keys, t))

RunSetNX(t, k, v) ==
  LET av == <<"setnx", k, v>>
      ini == SetNXCmd_DoInitial(av, keys)
  IN Step(av, t, ini, SetNXCmd_DoCmd(av, ini.keys, t))

RunSetEx(t, k, ttl, v) ==
  LET av == <<"setex", k, ttl, v>>
      ini == SetExCmd_DoInitial(av, keys)
  IN Step(av, t, ini, SetExCmd_DoCmd(av, ini.keys, t))

RunPSetEx(t, k, ttl, v) ==
  LET av == <<"psetex", k, ttl, v>>
      ini == PSetExCmd_DoInitial(av, keys)
  IN Step(av, t, ini, PSetExCmd_DoCmd(av, ini.keys, t))

RunIncr(t, k) ==
  LET av == <<"incr", k>>
      ini == IncrCmd_DoInitial(av, keys)
  IN Step(av, t, ini, IncrCmd_DoCmd(av, ini.keys, t))

RunDecr(t, k) ==
  LET av == <<"decr", k>>
      ini == DecrCmd_DoInitial(av, keys)
  IN Step(av, t, ini, DecrCmd_DoCmd(av, ini.keys, t))

RunIncrBy(t, k, d) ==
  LET av == <<"incrby", k, d>>
      ini == IncrbyCmd_DoInitial(av, keys)
  IN Step(av, t, ini, IncrbyCmd_DoCmd(av, ini.keys, t))

RunGetRange(t, k, a, b) ==
  LET av == <<"getrange", k, a, b>>
      ini == GetRangeCmd_DoInitial(av, keys)
  IN Step(av, t, ini, GetRangeCmd_DoCmd(av, ini.keys, t))

RunBitCount(t, args, oob) ==
  LET av == <<"bitcount">> \o args
      ini == BitCountCmd_DoInitial(av, keys)
  IN Step(av, t, ini, BitCountCmd_DoCmd(av, ini.keys, t, oob))

RunBitOp(t, args) ==
  LET av == <<"bitop">> \o args
      ini == BitOpCmd_DoInitial(av, keys)
  IN Step(av, t, ini, BitOpCmd_DoCmd(av, ini.keys, t))

RunAppend(t, k, v) ==
  LET av == <<"append", k, v>>
      ini == AppendCmd_DoInitial(av, keys)
  IN Step(av, t, ini, AppendCmd_DoCmd(av, ini.keys, t))

RunStrlen(t, k) ==
  LET av == <<"strlen", k>>
      ini == StrlenCmd_DoInitial(av, keys)
  IN Step(av, t, ini, StrlenCmd_DoCmd(av, ini.keys, t))

RunDecrBy(t, k, d, trap) ==
  LET av == <<"decrby", k, d>>
      ini == DecrbyCmd_DoInitial(av, keys)
  IN Step(av, t, ini, DecrbyCmd_DoCmd(av, ini.keys, t, trap))

RunIncrByFloat(t, k, d) ==
  LET av == <<"incrbyfloat", k, d>>
      ini == IncrbyFloatCmd_DoInitial(av, keys)
  IN Step(av, t, ini, IncrbyFloatCmd_DoCmd(av, ini.keys, t))

RunGetBit(t, k, o) ==
  LET av == <<"getbit", k, o>>
      ini == GetBitCmd_DoInitial(av, keys)
  IN Step(av, t, ini, GetBitCmd_DoCmd(av, ini.keys, t))

RunSetBit(t, k, o, b, wild) ==
  LET av == <<"setbit", k, o, b>>
      ini == SetBitCmd_DoInitial(av, keys)
  IN Step(av, t, ini, SetBitCmd_DoCmd(av, ini.keys, t, wild))

\* One action per command; K, V, T, ... are the sets its operands are drawn from
Get(K) == (\E t \in Times, k \in K : RunGet(t, k)) /\ UNCHANGED <<n0, sum>>
Set(K, V) == (\E t \in Times, k \in K, v \in V : RunSet(t, k, v)) /\ UNCHANGED <<n0, sum>>
GetSet(K, V) == (\E t \in Times, k \in K, v \in V : RunGetSet(t, k, v)) /\ UNCHANGED <<n0, sum>>
MGet(KL) == (\E t \in Times, kl \in KL : RunMGet(t, kl)) /\ UNCHANGED <<n0, sum>>
MSet(KVL) == (\E t \in Times, kvl \in KVL : RunMSet(t, kvl)) /\ UNCHANGED <<n0, sum>>
SetNX(K, V) == (\E t \in Times, k \in K, v \in V : RunSetNX(t, k, v)) /\ UNCHANGED <<n0, sum>>
SetEx(K, T, V) ==
  (\E t \in Times, k \in K, ttl \in T, v \in V : RunSetEx(t, k, ttl, v)) /\ UNCHANGED <<n0, sum>>
PSetEx(K, T, V) ==
  (\E t \in Times, k \in K, ttl \in T, v \in V : RunPSetEx(t, k, ttl, v)) /\ UNCHANGED <<n0, sum>>
Incr(K) == (\E t \in Times, k \in K : RunIncr(t, k)) /\ UNCHANGED <<n0, sum>>
Decr(K) == (\E t \in Times, k \in K : RunDecr(t, k)) /\ UNCHANGED <<n0, sum>>
IncrBy(K, D) == (\E t \in Times, k \in K, d \in D : RunIncrBy(t, k, d)) /\ UNCHANGED <<n0, sum>>
GetRange(K, O) ==
  (\E t \in Times, k \in K, a \in O, b \in O : RunGetRange(t, k, a, b)) /\ UNCHANGED <<n0, sum>>
BitCountCmd(AL) ==
  (\E t \in Times, args \in AL, oob \in OutOfBounds : RunBitCount(t, args, oob))
    /\ UNCHANGED <<n0, sum>>
BitOp(AL) == (\E t \in Times, args \in AL : RunBitOp(t, args)) /\ UNCHANGED <<n0, sum>>

\* APPEND is offered while the value it builds stays within MaxStrLen bytes
AppendTo(K, V) ==
  (\E t \in Times, k \in K, v \in V :
      /\ Len(GetDecodedString(store[k])) + Len(v) <= MaxStrLen
      /\ RunAppend(t, k, v)) /\ UNCHANGED <<n0, sum>>
Strlen(K) == (\E t \in Times, k \in K : RunStrlen(t, k)) /\ UNCHANGED <<n0, sum>>
DecrBy(K, D) ==
  (\E t \in Times, k \in K, d \in D, trap \in BOOLEAN : RunDecrBy(t, k, d, trap))
    /\ UNCHANGED <<n0, sum>>
IncrByFloat(K, D) ==
  (\E t \in Times, k \in K, d \in D : RunIncrByFloat(t, k, d)) /\ UNCHANGED <<n0, sum>>
GetBit(K, O) == (\E t \in Times, k \in K, o \in O : RunGetBit(t, k, o)) /\ UNCHANGED <<n0, sum>>
\* what a string pointer made from a non-zero integer may do when used
WildReads ==
  {[fault |-> TRUE, str |-> <<>>], [fault |-> FALSE, str |-> <<>>],
   [fault |-> FALSE, str |-> <<255>>]}
SetBit(K, O, B) ==
  (\E t \in Times, k \in K, o \in O, b \in B, wild \in WildReads : RunSetBit(t, k, o, b, wild))
    /\ UNCHANGED <<n0, sum>>

----------------------------------------------------------------------------
(* Initial state: an empty keyspace, except that commands outside this     *)
(* layer may already have created keys of another type                     *)

Init ==
  /\ store \in [KeySpace -> {Absent, ListObj}]
  /\ store[KeyC] = Absent
  /\ expire = [k \in KeySpace |-> NoExpire]
  /\ now = 0
  /\ argv = <<"none">>
  /\ keys = <<>>
  /\ reply = NoReply
  /\ old_store = store
  /\ old_expire = expire
  /\ n0 = 0
  /\ sum = 0

----------------------------------------------------------------------------
(* Plain and expiring writes, single- and multi-key reads *)

KVKeys == {KeyA, KeyB}
KVVals == {<<97>>, <<49>>}        \* "a", "1"
KVSetVals == KVVals \cup {<<>>, <<48, 49>>}   \* also "" and "01"
KVTtls == {<<49>>}                \* "1"
KVKeyLists == {<<a>> : a \in KVKeys} \cup {<<a, b>> : a, b \in KVKeys}
KVPairLists ==
  {<<a, v>> : a \in KVKeys, v \in KVVals}
    \cup {<<a, v, b, w>> : a, b \in KVKeys, v, w \in KVVals}

Next ==
  \/ Get(KVKeys)
  \/ Set(KVKeys, KVSetVals)
  \/ GetSet(KVKeys, KVVals)
  \/ SetNX(KVKeys, KVVals)
  \/ SetEx(KVKeys, KVTtls, KVSetVals)
  \/ PSetEx(KVKeys, KVTtls, KVVals)
  \/ MGet(KVKeyLists)
  \/ MSet(KVPairLists)

Spec == Init /\ [][Next]_vars

----------------------------------------------------------------------------
(* Properties of the plain and expiring writes *)

Cmd == argv[1]

\* what a reader of key k sees at time t in the current state
Seen(k, t) == GetValueByType(store, expire, k, kPTypeString, t)

\* the times at which a later reader may look at the keyspace
ReadTimes == {now + d : d \in {0, 1, 2, 999, 1000, 1001, TickMs, 2 * TickMs}}

\* the value of the last pair of an MSET argument vector that names k
LastPairValue(av, k) ==
  LET n == (Len(av) - 1) \div 2
      idx == CHOOSE i \in 1..n :
               /\ Arg(av, 2 * i - 1) = k
               /\ \A j \in (i + 1)..n : Arg(av, 2 * j - 1) # k
  IN Arg(av, 2 * idx)

\* the last command was a plain SET-family write that wrote key k
PlainWrote(k) ==
  \/ Cmd = "set" /\ Arg(argv, 1) = k
  \/ Cmd = "getset" /\ Arg(argv, 1) = k /\ reply.kind = "bulk"
  \/ Cmd = "setnx" /\ Arg(argv, 1) = k /\ reply = AppendInteger(1)
  \/ Cmd = "mset" /\ reply.code = "kOK" /\ \E i \in 1..Len(keys) : keys[i] = k

PlainValue(k) == IF Cmd = "mset" THEN LastPairValue(argv, k) ELSE Arg(argv, 2)

\* C1: when a plain SET-family write (SET, GETSET, a SETNX that writes,
\* MSET for each of its keys) has completed on k, k holds the written value
\* with no expiry, so that no later reader finds k absent through expiry.
C1_PlainWriteClearsExpiry ==
  \A k \in KeySpace :
    PlainWrote(k) =>
      /\ expire[k] = NoExpire
      /\ store[k] = CreateString(PlainValue(k))
      /\ \A t \in ReadTimes : Seen(k, t).err = kPErrorOK

\* a SET that found an unexpired ttl on its key
C1_Witness ==
  /\ Cmd = "set"
  /\ old_store[Arg(argv, 1)] # Absent
  /\ old_expire[Arg(argv, 1)] > now
  /\ expire[Arg(argv, 1)] = NoExpire

ExWrote == Cmd \in {"setex", "psetex"} /\ reply.code = "kOK"
ExDeadline ==
  now + String2int(Arg(argv, 2)).val * (IF Cmd = "setex" THEN 1000 ELSE 1)

\* C2: a completed SETEX / PSETEX leaves its key with the new value together
\* with the new expiry and touches no other key; a reader at any later time
\* sees the new value until the new expiry and nothing of the old state.
C2_SetExAtomic ==
  ExWrote =>
    LET k == Arg(argv, 1)
    IN /\ store[k] = CreateString(Arg(argv, 3))
       /\ expire[k] = ExDeadline
       /\ \A o \in KeySpace \ {k} : store[o] = old_store[o] /\ expire[o] = old_expire[o]
       /\ \A t \in ReadTimes :
            IF t < ExDeadline
              THEN Seen(k, t).err = kPErrorOK /\ Seen(k, t).value = CreateString(Arg(argv, 3))
              ELSE Seen(k, t).err = kPErrorNotExist

\* a SETEX / PSETEX over a key that held another value under another expiry
C2_Witness ==
  /\ ExWrote
  /\ old_store[Arg(argv, 1)] \notin {Absent, store[Arg(argv, 1)]}
  /\ old_expire[Arg(argv, 1)] \notin {NoExpire, expire[Arg(argv, 1)]}

MSetDone == Cmd = "mset" /\ reply.code = "kOK"
MSetPairs == 1..((Len(argv) - 1) \div 2)

\* C3 as stated: after MSET replied OK every key holds the value of its own
\* pair, with no expiry.
C3_EveryPairHeld ==
  MSetDone =>
    \A i \in MSetPairs :
      /\ store[Arg(argv, 2 * i - 1)] = CreateString(Arg(argv, 2 * i))
      /\ expire[Arg(argv, 2 * i - 1)] = NoExpire

\* C3: after MSET replied OK every named key holds the value of the last
\* pair that names it, with no expiry, and every other key is untouched: the
\* pairs are applied all together or (when Initial fails) not at all.
C3_MSetAllOrNothing ==
  /\ MSetDone =>
       \A k \in KeySpace :
         IF \E i \in MSetPairs : Arg(argv, 2 * i - 1) = k
           THEN store[k] = CreateString(LastPairValue(argv, k)) /\ expire[k] = NoExpire
           ELSE store[k] = old_store[k] /\ expire[k] = old_expire[k]
  /\ (Cmd = "mset" /\ ~MSetDone) => store = old_store /\ expire = old_expire

\* an MSET of two different keys that changed both, one of them under a ttl
C3_Witness ==
  /\ MSetDone
  /\ Len(argv) = 5
  /\ Arg(argv, 1) # Arg(argv, 3)
  /\ old_store[Arg(argv, 1)] # store[Arg(argv, 1)]
  /\ old_store[Arg(argv, 3)] # store[Arg(argv, 3)]
  /\ old_expire[Arg(argv, 3)] > now

\* C4: right after SET k v, a GET k at any time replies exactly the bytes v.
C4_SetGetRoundTrip ==
  Cmd = "set" =>
    \A t \in ReadTimes :
      GetCmd_DoCmd(<<"get", Arg(argv, 1)>>, SetKey(Arg(argv, 1)), t).reply
        = AppendString(Arg(argv, 2))

\* the element MGET owes for key k, from the keyspace before the command
MGetOwed(k) ==
  LET g == GetValueByType(old_store, old_expire, k, kPTypeString, now)
  IN IF g.err = kPErrorOK THEN Bulk(GetDecodedString(g.value)) ELSE NilBulk

\* C9: MGET k1..kn replies an array of n elements in argument order, the
\* decoded string for a String key and the nil bulk in every other case,
\* a key of another type included.
C9_MGetArray ==
  Cmd = "mget" =>
    /\ reply.kind = "array"
    /\ Len(reply.arr) = Len(argv) - 1
    /\ \A i \in 1..Len(reply.arr) : reply.arr[i] = MGetOwed(Arg(argv, i))

----------------------------------------------------------------------------
(* Counters: INCR, DECR, INCRBY on integer and non-integer values *)

NumKeys == {KeyA}
\* "0", the largest and the smallest integer, "a"
NumVals == {<<48>>, IntToStr(IntMax), IntToStr(IntMin), <<97>>}
NumDeltas == {<<49>>, <<45, 50>>, <<97>>}   \* "1", "-2", "a"

NextNum ==
  \/ Get(NumKeys)
  \/ Set(NumKeys, NumVals)
  \/ Incr(NumKeys)
  \/ Decr(NumKeys)
  \/ IncrBy(NumKeys, NumDeltas)

SpecNum == Init /\ [][NextNum]_vars

\* the Int-encoded value the last command found under its key, if any
OldInt(k) == old_store[k].encoding = kPEncodeInt /\ ~IsExpired(old_expire, k, now)

\* C5: INCR on the largest and DECR on the smallest integer reply InvalidInt
\* and leave the stored value as it was.
C5_OverflowReported ==
  /\ (Cmd = "incr" /\ OldInt(Arg(argv, 1)) /\ old_store[Arg(argv, 1)].int = IntMax)
        => reply.code = "kInvalidInt" /\ store = old_store
  /\ (Cmd = "decr" /\ OldInt(Arg(argv, 1)) /\ old_store[Arg(argv, 1)].int = IntMin)
        => reply.code = "kInvalidInt" /\ store = old_store

----------------------------------------------------------------------------
(* A counter run: INCR and INCRBY applied to one key, starting from an     *)
(* integer n0 (or from an absent key, n0 = 0), while nothing overflows     *)

RunDeltas == {<<49>>, <<50>>, <<45, 49>>, <<48>>}   \* "1", "2", "-1", "0"

InitCounter ==
  /\ n0 \in IntMin..IntMax
  /\ \/ store = [k \in KeySpace |-> IF k = KeyA THEN IntObj(n0) ELSE Absent]
     \/ n0 = 0 /\ store = [k \in KeySpace |-> Absent]
  /\ expire = [k \in KeySpace |-> NoExpire]
  /\ now = 0
  /\ argv = <<"none">>
  /\ keys = <<>>
  /\ reply = NoReply
  /\ old_store = store
  /\ old_expire = expire
  /\ sum = 0

InRun(total) ==
  /\ total \in (-MaxSum)..MaxSum
  /\ n0 + total \in IntMin..IntMax

CounterIncr ==
  /\ InRun(sum + 1)
  /\ \E t \in Times : RunIncr(t, KeyA)
  /\ sum' = sum + 1
  /\ n0' = n0

CounterIncrBy ==
  \E d \in RunDeltas :
    /\ InRun(sum + String2int(d).val)
    /\ \E t \in Times : RunIncrBy(t, KeyA, d)
    /\ sum' = sum + String2int(d).val
    /\ n0' = n0

NextCounter == CounterIncr \/ CounterIncrBy

SpecCounter == InitCounter /\ [][NextCounter]_vars

\* C10: after any mix of INCR and INCRBY on a key that held the integer n0
\* (or was absent, n0 = 0), with deltas summing to sum and no overflow, the
\* key holds n0 + sum Int-encoded and the last reply is n0 + sum.
C10_CounterSum ==
  Cmd \in {"incr", "incrby"} =>
    /\ store[KeyA] = IntObj(n0 + sum)
    /\ reply = AppendInteger(n0 + sum)

\* an INCR that completed a run of total MaxSum which started below zero
C10_Witness ==
  /\ Cmd = "incr"
  /\ n0 < 0
  /\ sum = MaxSum
  /\ store[KeyA] = IntObj(n0 + MaxSum)

----------------------------------------------------------------------------
(* Byte ranges: GETRANGE and BITCOUNT *)

RangeKeys == {KeyA}
RangeVals == {<<>>, <<255, 1>>, <<97, 98, 99>>, <<55>>}   \* "", "\xff\x01", "abc", "7"
\* "0", "1", "3", "-1", "-4"
RangeOffsets == {<<48>>, <<49>>, <<51>>, <<45, 49>>, <<45, 52>>}
BitCountArgs ==
  {<<k>> : k \in RangeKeys}
    \cup {<<k, a>> : k \in RangeKeys, a \in RangeOffsets}
    \cup {<<k, a, b>> : k \in RangeKeys, a, b \in RangeOffsets}

NextRange ==
  \/ Set(RangeKeys, RangeVals)
  \/ GetRange(RangeKeys, RangeOffsets)
  \/ BitCountCmd(BitCountArgs)

SpecRange == Init /\ [][NextRange]_vars

\* the String value the last command found under k
OldString(k) ==
  LET g == GetValueByType(old_store, old_expire, k, kPTypeString, now)
  IN [found |-> g.err = kPErrorOK, str |-> GetDecodedString(g.value)]

\* offsets normalized against length n: negative ones get n added, start is
\* clamped to at least 0 and end to [0, n - 1]
NormStart(a, n) == IF a < 0 THEN (IF a + n < 0 THEN 0 ELSE a + n) ELSE a
NormEnd(b, n) ==
  LET e == IF b < 0 THEN b + n ELSE b
      c == IF e < 0 THEN 0 ELSE e
  IN IF c > n - 1 THEN n - 1 ELSE c

\* the bytes at positions s..e inclusive of the normalized range
RangeOwed(str, a, b) ==
  LET st == NormStart(a, Len(str))
      en == NormEnd(b, Len(str))
  IN IF st <= en THEN SubSeq(str, st + 1, en + 1) ELSE <<>>

\* C6: on a String value GETRANGE normalizes both offsets and only then
\* compares them: it replies the bytes s..e of the normalized range, the
\* empty string when that range is empty, and always replies.
C6_GetRangeNormalized ==
  (Cmd = "getrange" /\ OldString(Arg(argv, 1)).found) =>
    reply = AppendString(RangeOwed(OldString(Arg(argv, 1)).str,
                                   String2int(Arg(argv, 2)).val,
                                   String2int(Arg(argv, 3)).val))

\* number of set bits of bytes st..en (0-based, inclusive), bit by bit
BitsIn(str, st, en) ==
  Cardinality({i \in (8 * st)..(8 * en + 7) : Bit(str[(i \div 8) + 1], i % 8) = 1})

\* C7: on a String value BITCOUNT k replies the number of set bits of the
\* whole value, and BITCOUNT k start end that of the normalized inclusive
\* byte range.
C7_BitCount ==
  (Cmd = "bitcount" /\ Len(argv) \in {2, 4} /\ OldString(Arg(argv, 1)).found) =>
    LET str == OldString(Arg(argv, 1)).str
        st == IF Len(argv) = 2 THEN 0 ELSE NormStart(String2int(Arg(argv, 2)).val, Len(str))
        en == IF Len(argv) = 2 THEN Len(str) - 1
              ELSE NormEnd(String2int(Arg(argv, 3)).val, Len(str))
    IN reply = AppendInteger(IF st <= en THEN BitsIn(str, st, en) ELSE 0)

\* the part of C7 about the ranged form alone
RangedBitCount == Len(argv) = 4 => C7_BitCount

----------------------------------------------------------------------------
(* BITOP over two source keys into a third key *)

BitOpSrcKeys == {KeyA, KeyB}
BitOpDest == {KeyC}
BitOpVals == {<<255, 240>>, <<15>>}      \* "\xff\xf0", "\x0f"
\* "AND", "or", "Xor", "NOT"
BitOpNames == {<<65, 78, 68>>, <<111, 114>>, <<88, 111, 114>>, <<78, 79, 84>>}
\* "nand": no operation
BitOpBadNames == {<<110, 97, 110, 100>>}
\* every op over one or two sources, NOT over two sources included
BitOpArgs ==
  {<<o, d, a>> : o \in BitOpNames \cup BitOpBadNames, d \in BitOpDest, a \in BitOpSrcKeys}
    \cup {<<o, d, a, b>> : o \in BitOpNames, d \in BitOpDest, a, b \in BitOpSrcKeys}

NextBitOp ==
  \/ Get(BitOpSrcKeys \cup BitOpDest)
  \/ Set(BitOpSrcKeys, BitOpVals)
  \/ SetEx(BitOpDest, KVTtls, BitOpVals)
  \/ BitOp(BitOpArgs)

SpecBitOp == Init /\ [][NextBitOp]_vars

\* the operation an op token names, compared case-insensitively
OpOf(name) ==
  CASE StringEqualCaseInsensitive(name, OpAnd) -> "kBitOpAnd"
    [] StringEqualCaseInsensitive(name, OpOr) -> "kBitOpOr"
    [] StringEqualCaseInsensitive(name, OpXor) -> "kBitOpXor"
    [] StringEqualCaseInsensitive(name, OpNot) -> "kBitOpNot"
    [] OTHER -> "none"

\* a BITOP with a valid op and a valid number of source keys
ValidBitOp ==
  /\ Cmd = "bitop"
  /\ OpOf(Arg(argv, 1)) # "none"
  /\ Len(argv) >= 4
  /\ OpOf(Arg(argv, 1)) = "kBitOpNot" => Len(argv) = 4

\* what the operation computes over the sources as the command found them
BitOpResult ==
  StringBitOp(old_store, old_expire, SubSeq(argv, 4, Len(argv)), OpOf(Arg(argv, 1)), now).res

\* C8: after a valid BITOP the destination holds the computed result with
\* no expiry and the reply carries the length of the result, whatever key
\* an earlier command recorded on the client.
C8_BitOpStores ==
  ValidBitOp =>
    /\ store[Arg(argv, 2)] = CreateString(BitOpResult)
    /\ expire[Arg(argv, 2)] = NoExpire
    /\ reply \in {AppendInteger(Len(BitOpResult)), SetResLen("kOK", Len(BitOpResult))}

\* the same with the recorded key of a length that BITOP dispatches on
C8_WhenDispatched ==
  (ValidBitOp /\ Len(Key(keys)) = 3) => C8_BitOpStores

----------------------------------------------------------------------------
(* Bit and length commands on one key: SET, SETEX, APPEND, STRLEN, GETBIT,
   SETBIT *)

BitKeys == {KeyA}
\* "", "0", "01", "\xff\x01", "a"
BitVals == {<<>>, <<48>>, <<48, 49>>, <<255, 1>>, <<97>>}
\* "01"
BitTails == {<<48, 49>>}
\* "0", "9", "-1", "a"
BitOffsets == {<<48>>, <<57>>, <<45, 49>>, <<97>>}
\* "0", "1", "2", "a"
BitOns == {<<48>>, <<49>>, <<50>>, <<97>>}

NextBit ==
  \/ Set(BitKeys, BitVals)
  \/ SetEx(BitKeys, KVTtls, {<<97>>})
  \/ AppendTo(BitKeys, BitTails)
  \/ Strlen(BitKeys)
  \/ GetBit(BitKeys, BitOffsets)
  \/ SetBit(BitKeys, BitOffsets, BitOns)

SpecBit == Init /\ [][NextBit]_vars

\* what the command found under k: the keyspace before it, read at its time
OldSeen(k) == GetValueByType(old_store, old_expire, k, kPTypeString, now)

\* bit i of byte string s, LSB-first within each byte; 0 beyond the end
BitAt(s, i) == IF i \div 8 + 1 <= Len(s) THEN Bit(s[i \div 8 + 1], i % 8) ELSE 0

\* the commands a client may send next, run on the present keyspace
GetBitNow(k, o) == GetBitCmd_DoCmd(<<"getbit", k, o>>, SetKey(k), now).reply
StrlenNow(k) == StrlenCmd_DoCmd(<<"strlen", k>>, SetKey(k), now).reply

\* a SETBIT whose offset is a non-negative integer and whose value is 0 or 1
SetBitRan ==
  /\ Cmd = "setbit"
  /\ Strtol(Arg(argv, 2)).ok /\ Strtol(Arg(argv, 2)).val >= 0
  /\ Strtol(Arg(argv, 2)).val <= kStringMaxBytes
  /\ Strtol(Arg(argv, 3)).ok /\ Strtol(Arg(argv, 3)).val \in {0, 1}

\* reply and keyspace a SETBIT k o b owes when k held byte string s (empty
\* when k was absent)
SetBitOwed(k, s, o, b) ==
  /\ reply = AppendInteger(BitAt(s, o))
  /\ store[k].type = kPTypeString /\ store[k].encoding = kPEncodeRaw
  /\ Len(store[k].str) = (IF Len(s) > o \div 8 + 1 THEN Len(s) ELSE o \div 8 + 1)
  /\ \A i \in 0..(8 * Len(store[k].str) - 1) :
       BitAt(store[k].str, i) = (IF i = o THEN b ELSE BitAt(s, i))
  /\ GetBitNow(k, Arg(argv, 2)) = AppendInteger(b)
  /\ StrlenNow(k).kind = "int" /\ StrlenNow(k).int >= (o + 8) \div 8

\* C11: SETBIT k o b on an absent key or a String value replies the bit o had
\* before; afterwards GETBIT k o is b, the value is long enough to hold bit o,
\* added bytes are zero, every other bit is unchanged and the value is Raw
C11_SetBit ==
  (SetBitRan /\ OldSeen(Arg(argv, 1)).err \in {kPErrorOK, kPErrorNotExist}) =>
     SetBitOwed(Arg(argv, 1), GetDecodedString(OldSeen(Arg(argv, 1)).value),
                Strtol(Arg(argv, 2)).val, Strtol(Arg(argv, 3)).val)

\* the same, when the value SETBIT found was absent or Raw-encoded
C11_OnRawValues ==
  (SetBitRan /\ OldSeen(Arg(argv, 1)).err \in {kPErrorOK, kPErrorNotExist}
     /\ OldSeen(Arg(argv, 1)).value.encoding # kPEncodeInt) =>
     SetBitOwed(Arg(argv, 1), GetDecodedString(OldSeen(Arg(argv, 1)).value),
                Strtol(Arg(argv, 2)).val, Strtol(Arg(argv, 3)).val)

\* SETBIT grew a Raw value and set a bit of the added byte
C11_RawGrown ==
  /\ SetBitRan /\ OldSeen(Arg(argv, 1)).err = kPErrorOK
  /\ OldSeen(Arg(argv, 1)).value.encoding = kPEncodeRaw
  /\ Len(store[Arg(argv, 1)].str) > Len(OldSeen(Arg(argv, 1)).value.str)
  /\ Strtol(Arg(argv, 3)).val = 1


----------------------------------------------------------------------------
(* BITOP: the computed string, and the rejected forms *)

\* the sources of the BITOP that ran, and those it found holding a String
BitOpSources == SubSeq(argv, 4, Len(argv))
ExistingSources == SelectSeq(BitOpSources, LAMBDA k : OldSeen(k).err = kPErrorOK)
SourceBytes(k) == GetDecodedString(OldSeen(k).value)

RECURSIVE LongestOf(_)
LongestOf(ks) ==
  IF ks = <<>> THEN 0
  ELSE LET n == Len(SourceBytes(Head(ks)))
           m == LongestOf(Tail(ks))
       IN IF n > m THEN n ELSE m

\* byte i of a source right-padded with zero bytes
PaddedByte(k, i) == IF i <= Len(SourceBytes(k)) THEN SourceBytes(k)[i] ELSE 0

\* byte i of op applied to every source in ks, each zero-padded
RECURSIVE OpOverPadded(_, _, _)
OpOverPadded(op, ks, i) ==
  IF Len(ks) = 1 THEN PaddedByte(ks[1], i)
  ELSE LET x == OpOverPadded(op, SubSeq(ks, 1, Len(ks) - 1), i)
           y == PaddedByte(ks[Len(ks)], i)
       IN CASE op = "kBitOpAnd" -> ByteAnd(x, y)
            [] op = "kBitOpOr" -> ByteOr(x, y)
            [] op = "kBitOpXor" -> ByteXor(x, y)

PaddedResult(op) ==
  [i \in 1..LongestOf(ExistingSources) |-> OpOverPadded(op, ExistingSources, i)]

\* what StringBitOp computes for op over the sources of the BITOP that ran
Computed(op) == StringBitOp(old_store, old_expire, BitOpSources, op, now).res

\* C12: for AND, OR and XOR the string BITOP computes is as long as the
\* longest existing String source and equals the operation over the existing
\* sources, each right-padded with zero bytes; other sources are skipped
C12_ZeroPadded ==
  (Cmd = "bitop" /\ Len(argv) >= 4) =>
     \A op \in {"kBitOpAnd", "kBitOpOr", "kBitOpXor"} : Computed(op) = PaddedResult(op)

\* the same for OR and XOR alone, whose padding bytes the accumulator's
\* zero fill already agrees with
C12_OrXorPadded ==
  (Cmd = "bitop" /\ Len(argv) >= 4
     /\ \A i \in 1..Len(ExistingSources) : SourceBytes(ExistingSources[i]) # <<>>) =>
     \A op \in {"kBitOpOr", "kBitOpXor"} : Computed(op) = PaddedResult(op)

\* XOR of a source with itself is all zero, of the source's length
C12_XorSelf ==
  (Cmd = "bitop" /\ Len(argv) = 5 /\ Arg(argv, 3) = Arg(argv, 4)
     /\ OldSeen(Arg(argv, 3)).err = kPErrorOK) =>
     Computed("kBitOpXor") = [i \in 1..Len(SourceBytes(Arg(argv, 3))) |-> 0]

\* a BITOP the contract rejects: no such op, or NOT over other than one source
BitOpRejected ==
  /\ Cmd = "bitop"
  /\ \/ OpOf(Arg(argv, 1)) = "none"
     \/ OpOf(Arg(argv, 1)) = "kBitOpNot" /\ Len(argv) # 4

\* what a reader finds under k at time t: absent once expired
Visible(st, ex, k, t) == IF IsExpired(ex, k, t) THEN Absent ELSE st[k]

\* C16: a rejected BITOP ends with SyntaxErr as the reply the client
\* receives and leaves the destination as it was
C16_RejectedBitOp ==
  BitOpRejected =>
    /\ reply.kind = "res" /\ reply.code = "kSyntaxErr"
    /\ Visible(store, expire, Arg(argv, 2), now) = Visible(old_store, old_expire, Arg(argv, 2), now)

\* the part that holds: an unknown op is refused with SyntaxErr, and no
\* rejected BITOP touches the destination
C16_UnknownOpRefused ==
  /\ (Cmd = "bitop" /\ OpOf(Arg(argv, 1)) = "none") =>
        reply.kind = "res" /\ reply.code = "kSyntaxErr"
  /\ BitOpRejected =>
        Visible(store, expire, Arg(argv, 2), now) = Visible(old_store, old_expire, Arg(argv, 2), now)


----------------------------------------------------------------------------
(* SETEX / PSETEX followed by GET *)

\* the reply of a GET k sent at time t on the present keyspace
GetAt(k, t) == GetCmd_DoCmd(<<"get", k>>, SetKey(k), t).reply

\* a SETEX / PSETEX with a positive ttl has written
ExWrotePositive == ExWrote /\ String2int(Arg(argv, 2)).val > 0

\* C13: after SETEX k ttl v at time t the expiry of k is exactly
\* t + ttl * 1000 (t + ttl for PSETEX); a GET k before it replies v, a GET k
\* after it reports k absent
C13_SetExThenGet ==
  ExWrotePositive =>
    /\ expire[Arg(argv, 1)] = ExDeadline
    /\ \A t \in ReadTimes :
         /\ t < ExDeadline => GetAt(Arg(argv, 1), t) = AppendString(Arg(argv, 3))
         /\ t > ExDeadline => GetAt(Arg(argv, 1), t) = AppendString(<<>>)

\* the same with GET owed the decoded form of the stored value
C13_ExpiryExact ==
  ExWrotePositive =>
    /\ expire[Arg(argv, 1)] = ExDeadline
    /\ \A t \in ReadTimes :
         /\ t < ExDeadline =>
              GetAt(Arg(argv, 1), t) = AppendString(GetDecodedString(CreateString(Arg(argv, 3))))
         /\ t > ExDeadline => GetAt(Arg(argv, 1), t) = AppendString(<<>>)


----------------------------------------------------------------------------
(* GETBIT *)

\* the bit GETBIT owes at integer offset o of byte string s
GetBitOwed(s, o) == IF o >= 0 /\ o < 8 * Len(s) THEN BitAt(s, o) ELSE 0

\* no key looks different to a reader at the time of the command
KeyspaceUntouched ==
  \A k \in KeySpace : Visible(store, expire, k, now) = Visible(old_store, old_expire, k, now)

\* C14: after SET k s, GETBIT k o replies bit (o mod 8) of byte (o div 8) of
\* s, LSB-first, and 0 for an offset outside s; GETBIT on an absent or
\* wrong-typed key replies ErrOther; GETBIT never changes the keyspace
C14_GetBit ==
  /\ Cmd = "set" =>
       \A o \in {x \in BitOffsets : Strtol(x).ok} :
         GetBitNow(Arg(argv, 1), o) = AppendInteger(GetBitOwed(Arg(argv, 2), Strtol(o).val))
  /\ Cmd = "getbit" =>
       /\ OldSeen(Arg(argv, 1)).err # kPErrorOK => reply = SetRes("kErrOther", "")
       /\ KeyspaceUntouched

\* the same with the bits taken from the decoded form of the stored value
C14_OfDecoded ==
  /\ Cmd = "set" =>
       \A o \in {x \in BitOffsets : Strtol(x).ok} :
         GetBitNow(Arg(argv, 1), o)
           = AppendInteger(GetBitOwed(GetDecodedString(CreateString(Arg(argv, 2))), Strtol(o).val))
  /\ Cmd = "getbit" =>
       /\ OldSeen(Arg(argv, 1)).err # kPErrorOK => reply = SetRes("kErrOther", "")
       /\ OldSeen(Arg(argv, 1)).err = kPErrorOK /\ Strtol(Arg(argv, 2)).ok =>
            reply = AppendInteger(GetBitOwed(GetDecodedString(OldSeen(Arg(argv, 1)).value),
                                             Strtol(Arg(argv, 2)).val))
       /\ KeyspaceUntouched

\* C15: SETBIT with an integer value outside {0, 1}, on an absent key or a
\* String value, replies InvalidInt and changes no bit of the key
C15_SetBitValueChecked ==
  (Cmd = "setbit" /\ Strtol(Arg(argv, 2)).ok /\ Strtol(Arg(argv, 3)).ok
     /\ Strtol(Arg(argv, 3)).val \notin {0, 1}
     /\ OldSeen(Arg(argv, 1)).err \in {kPErrorOK, kPErrorNotExist}) =>
     /\ reply = SetRes("kInvalidInt", "")
     /\ \A i \in 0..(8 * MaxStrLen) :
          BitAt(GetDecodedString(Visible(store, expire, Arg(argv, 1), now)), i)
            = BitAt(GetDecodedString(OldSeen(Arg(argv, 1)).value), i)


----------------------------------------------------------------------------
(* INCRBY / DECRBY with any delta, over absent, expiring, integer and other
   values *)

\* "1", "-2", the smallest integer, "a"
ByDeltas == {<<49>>, <<45, 50>>, IntToStr(IntMin), <<97>>}

NextBy ==
  \/ Set(NumKeys, NumVals)
  \/ SetEx(NumKeys, KVTtls, {<<48>>})
  \/ IncrBy(NumKeys, ByDeltas)
  \/ DecrBy(NumKeys, ByDeltas)

SpecBy == Init /\ [][NextBy]_vars

\* an INCRBY / DECRBY that passed Initial, and its delta
ByRan(name) == Cmd = name /\ String2int(Arg(argv, 2)).ok
Delta == String2int(Arg(argv, 2)).val

\* k holds integer n with no expiry and n was replied
HoldsNew(k, n) ==
  /\ store[k].type = kPTypeString
  /\ GetDecodedString(store[k]) = IntToStr(n)
  /\ expire[k] = NoExpire
  /\ reply = AppendInteger(n)

\* the answer of the keyspace service to the INCRBY / DECRBY that ran
ServiceErr ==
  IF Cmd = "incrby" THEN Incrby(old_store, old_expire, Arg(argv, 1), Delta, now).err
  ELSE Decrby(old_store, old_expire, Arg(argv, 1), Delta, now).err

\* C17: on an absent or expired key INCRBY leaves delta and replies delta,
\* DECRBY leaves and replies the true negation of delta, both with no
\* expiry; when the keyspace service answers Type the reply is InvalidInt
\* and the key is unchanged
C17_ByOnAbsent ==
  /\ (ByRan("incrby") /\ ServiceErr = kPErrorNotExist) => HoldsNew(Arg(argv, 1), Delta)
  /\ (ByRan("decrby") /\ ServiceErr = kPErrorNotExist) => HoldsNew(Arg(argv, 1), 0 - Delta)
  /\ ((ByRan("incrby") \/ ByRan("decrby")) /\ ServiceErr = kPErrorType) =>
        /\ reply = SetRes("kInvalidInt", "")
        /\ Visible(store, expire, Arg(argv, 1), now) = Visible(old_store, old_expire, Arg(argv, 1), now)

\* the same for every delta whose negation is representable
C17_NegationRepresentable ==
  /\ (ByRan("incrby") /\ ServiceErr = kPErrorNotExist) => HoldsNew(Arg(argv, 1), Delta)
  /\ (ByRan("decrby") /\ ServiceErr = kPErrorNotExist /\ Delta # IntMin) =>
        HoldsNew(Arg(argv, 1), 0 - Delta)
  /\ ((ByRan("incrby") \/ ByRan("decrby")) /\ ServiceErr = kPErrorType) =>
        /\ reply = SetRes("kInvalidInt", "")
        /\ Visible(store, expire, Arg(argv, 1), now) = Visible(old_store, old_expire, Arg(argv, 1), now)


----------------------------------------------------------------------------
(* SETNX *)

\* what SETNX found under k: any type counts as existing, an expired key
\* as absent
OldAny(k) == GetValue(old_store, old_expire, k, now)

\* the reply of a SETNX k v sent next, at time t
SetNXAt(k, v, t) == SetNXCmd_DoCmd(<<"setnx", k, v>>, SetKey(k), t).reply

\* C18: SETNX on an existing, unexpired key of any type replies 0 and leaves
\* its value, type, encoding and expiry unchanged; on an absent or expired
\* key it replies 1 and the key holds v with no expiry; a SETNX that follows
\* while the key has not expired replies 0
C18_SetNX ==
  Cmd = "setnx" =>
    LET k == Arg(argv, 1)
    IN /\ IF OldAny(k).err = kPErrorNotExist
            THEN /\ reply = AppendInteger(1)
                 /\ store[k] = CreateString(Arg(argv, 2))
                 /\ expire[k] = NoExpire
            ELSE /\ reply = AppendInteger(0)
                 /\ store[k] = old_store[k]
                 /\ expire[k] = old_expire[k]
       /\ \A t \in ReadTimes, v \in KVVals :
            ~IsExpired(expire, k, t) => SetNXAt(k, v, t) = AppendInteger(0)

\* SETNX replaced a key whose expiry had passed
C18_Witness ==
  /\ Cmd = "setnx" /\ reply = AppendInteger(1)
  /\ old_store[Arg(argv, 1)] # Absent /\ old_expire[Arg(argv, 1)] # NoExpire
  /\ old_expire[Arg(argv, 1)] <= now
  /\ store[Arg(argv, 1)] # old_store[Arg(argv, 1)]


----------------------------------------------------------------------------
(* APPEND / STRLEN *)

\* the decoded bytes APPEND found under k: empty when k was absent
AppendFound(k) == GetDecodedString(OldSeen(k).value)

\* C19: APPEND k x on a String value s (empty when k is absent) leaves k
\* holding s followed by x and replies |s| + |x|, which a following STRLEN k
\* replies too; a key that was absent gets no expiry; on another type the
\* reply is ErrOther and k is unchanged
C19_Append ==
  Cmd = "append" =>
    LET k == Arg(argv, 1)
        x == Arg(argv, 2)
    IN IF OldSeen(k).err \in {kPErrorOK, kPErrorNotExist}
         THEN /\ store[k].type = kPTypeString
              /\ GetDecodedString(store[k]) = AppendFound(k) \o x
              /\ reply = AppendInteger(Len(AppendFound(k)) + Len(x))
              /\ StrlenNow(k) = reply
              /\ OldSeen(k).err = kPErrorNotExist => expire[k] = NoExpire
         ELSE /\ reply.kind = "res" /\ reply.code = "kErrOther"
              /\ store[k] = old_store[k] /\ expire[k] = old_expire[k]

\* the same when the concatenation is not kept as an integer
C19_WhenKeptRaw ==
  (Cmd = "append"
     /\ CreateString(AppendFound(Arg(argv, 1)) \o Arg(argv, 2)).encoding = kPEncodeRaw) =>
     C19_Append


----------------------------------------------------------------------------
(* Commands whose Initial can fail, with well-formed and malformed operands *)

IniKeys == {KeyA}
IniVals == {<<97>>, <<49>>}            \* "a", "1"
IniNums == {<<49>>, <<97>>}            \* "1", "a"
IniPairLists ==
  {<<k>> : k \in IniKeys} \cup {<<k, v>> : k \in IniKeys, v \in IniVals}
    \cup {<<k, v, k>> : k \in IniKeys, v \in IniVals}
IniBitCountArgs ==
  {<<k, a>> : k \in IniKeys, a \in IniNums}
    \cup {<<k, a, b>> : k \in IniKeys, a, b \in IniNums}
IniBitOpArgs ==
  {<<o, d, a>> : o \in {<<111, 114>>} \cup BitOpBadNames, d \in BitOpDest, a \in IniKeys}

NextIni ==
  \/ Set(IniKeys, IniVals)
  \/ MSet(IniPairLists)
  \/ SetEx(IniKeys, IniNums, IniVals)
  \/ PSetEx(IniKeys, IniNums, IniVals)
  \/ IncrBy(IniKeys, IniNums)
  \/ DecrBy(IniKeys, IniNums)
  \/ IncrByFloat(IniKeys, IniNums)
  \/ GetRange(IniKeys, IniNums)
  \/ BitCountCmd(IniBitCountArgs)
  \/ BitOp(IniBitOpArgs)

SpecIni == Init /\ [][NextIni]_vars

IsInteger(s) == String2int(s).ok

\* the error reply the contract makes Initial write for the command that
\* ran, "none" when its operands are well-formed
InitialOwes ==
  CASE Cmd = "mset" /\ Len(argv) % 2 = 0 -> "kWrongNum"
    [] Cmd = "bitcount" /\ Len(argv) \notin {2, 4} -> "kSyntaxErr"
    [] Cmd = "bitop" /\ OpOf(Arg(argv, 1)) = "none" -> "kSyntaxErr"
    [] Cmd \in {"setex", "psetex", "incrby", "decrby"} /\ ~IsInteger(Arg(argv, 2)) -> "kInvalidInt"
    [] Cmd = "getrange" /\ (~IsInteger(Arg(argv, 2)) \/ ~IsInteger(Arg(argv, 3))) -> "kInvalidInt"
    [] Cmd = "incrbyfloat" /\ ~ParseDecimal(Arg(argv, 2)).ok -> "kInvalidFloat"
    [] OTHER -> "none"

\* Initial failed: the error reply is the whole outcome of the command
FailedInInitial(code) ==
  /\ reply.kind = "res" /\ reply.code = code
  /\ store = old_store /\ expire = old_expire

C20_ButIncrByFloat ==
  (InitialOwes # "none" /\ Cmd # "incrbyfloat") => FailedInInitial(InitialOwes)

\* whenever the Initial of INCRBYFLOAT does fail, its reply is InvalidFloat
\* and the keyspace is as before
C20_IncrByFloatRefusal ==
  (Cmd = "incrbyfloat" /\ ~IncrbyFloatCmd_DoInitial(argv, keys).ok) =>
     FailedInInitial("kInvalidFloat")


----------------------------------------------------------------------------
(* The key set Initial records and the keys Execute uses *)

\* the Initial of the command av names, run on a client that recorded ks
InitialOf(av, ks) ==
  CASE av[1] = "get" -> GetCmd_DoInitial(av, ks)
    [] av[1] = "set" -> SetCmd_DoInitial(av, ks)
    [] av[1] = "append" -> AppendCmd_DoInitial(av, ks)
    [] av[1] = "getset" -> GetSetCmd_DoInitial(av, ks)
    [] av[1] = "mget" -> MGetCmd_DoInitial(av, ks)
    [] av[1] = "mset" -> MSetCmd_DoInitial(av, ks)
    [] av[1] = "bitcount" -> BitCountCmd_DoInitial(av, ks)
    [] av[1] = "decr" -> DecrCmd_DoInitial(av, ks)
    [] av[1] = "incr" -> IncrCmd_DoInitial(av, ks)
    [] av[1] = "bitop" -> BitOpCmd_DoInitial(av, ks)
    [] av[1] = "strlen" -> StrlenCmd_DoInitial(av, ks)
    [] av[1] = "setex" -> SetExCmd_DoInitial(av, ks)
    [] av[1] = "psetex" -> PSetExCmd_DoInitial(av, ks)
    [] av[1] = "incrby" -> IncrbyCmd_DoInitial(av, ks)
    [] av[1] = "decrby" -> DecrbyCmd_DoInitial(av, ks)
    [] av[1] = "incrbyfloat" -> IncrbyFloatCmd_DoInitial(av, ks)
    [] av[1] = "setnx" -> SetNXCmd_DoInitial(av, ks)
    [] av[1] = "getbit" -> GetBitCmd_DoInitial(av, ks)
    [] av[1] = "getrange" -> GetRangeCmd_DoInitial(av, ks)
    [] av[1] = "setbit" -> SetBitCmd_DoInitial(av, ks)

SeqRange(q) == {q[i] : i \in DOMAIN q}

\* the keys the Execute of the command av names hands to the keyspace
\* service, on a client whose recorded keys are ks
Touches(av, ks) ==
  CASE av[1] \in {"get", "strlen", "decr", "incr", "incrby", "decrby", "getbit", "getrange",
                  "setbit"} -> {Key(ks)}
    [] av[1] \in {"append", "getset", "incrbyfloat"} -> {Key(ks), Arg(av, 1)}
    [] av[1] \in {"set", "setnx", "setex", "psetex", "bitcount"} -> {Arg(av, 1)}
    [] av[1] \in {"mget", "mset"} -> SeqRange(ks)
    [] av[1] = "bitop" -> {Arg(av, 2)} \cup SeqRange(SubSeq(av, 4, Len(av)))

\* a command ran whose Initial succeeded
InitialPassed == Cmd # "none" /\ InitialOf(argv, <<>>).ok

\* key lists an earlier command may have left on the client
StaleKeys == {<<>>, <<KeyA>>, <<KeyB>>, <<KeyC>>}

\* the recorded keys are those Initial takes from the arguments, they cover
\* every key Execute uses, and for BITOP the outcome of Execute is the same
\* whatever an earlier command recorded
KeysCover ==
  /\ keys = InitialOf(argv, <<>>).keys
  /\ Touches(argv, keys) \subseteq SeqRange(keys)
  /\ Cmd = "bitop" =>
       \A ks \in StaleKeys :
         BitOpCmd_DoCmd(argv, ks, now).reply = BitOpCmd_DoCmd(argv, keys, now).reply

\* C21: when Initial succeeds the recorded key set contains every key the
\* following Execute reads or writes, and Execute takes no decision from a
\* recorded key that its own Initial did not set
C21_KeysRecorded == InitialPassed => KeysCover

\* the same for every command but BITOP
C21_ButBitOp == (InitialPassed /\ Cmd # "bitop") => KeysCover


----------------------------------------------------------------------------
(* Error replies and the keyspace *)

\* Execute ran and ended with an error reply
ExecuteErred ==
  /\ InitialPassed
  /\ reply.kind = "res"
  /\ reply.code \in {"kSyntaxErr", "kInvalidInt", "kInvalidFloat", "kErrOther"}

\* C22: whenever Execute ends with an error reply no key has been created
\* and no value, encoding or expiry has changed; SETBIT on an absent key with
\* a non-integer offset or value leaves no empty key behind
C22_ErrorsLeaveKeyspace == ExecuteErred => KeyspaceUntouched

\* the same for every command but SETBIT
C22_ButSetBit == (ExecuteErred /\ Cmd # "setbit") => KeyspaceUntouched


----------------------------------------------------------------------------
(* Read-vs-write flags *)

kCmdFlagsReadonly == "kCmdFlagsReadonly"
kCmdFlagsWrite == "kCmdFlagsWrite"

\* the flag each command's constructor hands to BaseCmd
CmdFlag(name) ==
  IF name \in {"get", "mget", "bitcount", "decr", "incr", "strlen", "getrange"}
    THEN kCmdFlagsReadonly
    ELSE kCmdFlagsWrite

\* C23: a command constructed read-only leaves the keyspace unchanged in
\* every execution, and every command whose Execute creates or modifies a
\* key carries the write flag
C23_FlagsAgree ==
  Cmd # "none" =>
    /\ CmdFlag(Cmd) = kCmdFlagsReadonly => KeyspaceUntouched
    /\ ~KeyspaceUntouched => CmdFlag(Cmd) = kCmdFlagsWrite

\* the same for every command but INCR and DECR
C23_ButIncrDecr ==
  (Cmd \notin {"none", "incr", "decr"}) =>
    /\ CmdFlag(Cmd) = kCmdFlagsReadonly => KeyspaceUntouched
    /\ ~KeyspaceUntouched => CmdFlag(Cmd) = kCmdFlagsWrite


====
